---------------------------- MODULE Spec2Model ----------------------------
(***************************************************************************)
(* pdftopod: the PDF-to-podcast pipeline (extraction, planning, dialogue   *)
(* with bounded expansion, claim extraction, batched verification,         *)
(* batched coverage, aggregation, saving), with the text-generation        *)
(* backend as a nondeterministic source of responses.                      *)
(*                                                                         *)
(* A backend response is a record: kind "transport_error" (the call        *)
(* raises), "invalid_json" (json.loads raises JSONDecodeError),            *)
(* "not_object" (valid JSON that is no object, so data.get raises          *)
(* AttributeError) or "object" with the decoded fields.  A JSON object is  *)
(* a record holding exactly the keys that are present; a list member that  *)
(* is no object is the record [json_type |-> "string"].                    *)
(***************************************************************************)
EXTENDS Integers, Sequences, FiniteSets, TLC

VARIABLES
    pc,             \* position of the run: the stage about to act
    raised,         \* the exception propagating out of the run, or "none"
    response,       \* the last response of the Text-Generation Port
    calls,          \* the port calls issued so far, by stage, in order
    config,         \* Config: document title, page count, configured sections
    sections,       \* ExtractedDocument.sections
    plan,           \* PodcastPlan handed to the Dialogue Stage
    script,         \* PodcastScript held by the Dialogue Stage / the run
    attempt,        \* expansion calls made by _generate_dialogue
    claims,         \* ExtractedClaim list
    batch_start,    \* loop variable of _verify_claims_batched (0-based)
    batch_log,      \* per finished batch: its start, its size, "parsed" or "failed"
    verifications,  \* ClaimVerification list built by _verify_claims_batched
    coverage,       \* CoverageItem list
    report,         \* VerificationReport, or NoReport
    written,        \* the output files written so far
    script_md,      \* the markdown text written to podcast_script.md
    key_points_with_sources,  \* the key points formatted for the dialogue prompt
    response_text,  \* a response text handed to _extract_json
    json_str        \* the payload _extract_json returned for response_text

vars == <<pc, raised, response, calls, config, sections, plan, script, attempt, claims,
          batch_start, batch_log, verifications, coverage, report, written,
          script_md, key_points_with_sources, response_text, json_str>>

-----------------------------------------------------------------------------
(* Bounds of the model *)

MaxClaims == 17         \* claim lists of 0..MaxClaims claims
MaxEntries == 2         \* entries in one structured response list
MaxLines == 2           \* dialogue lines in one response
TotalPages == 3         \* pages of the source document
MaxVerifications == 3   \* verifications of a report built from a given list
MaxPages == 2           \* pages configured for a section of varying pages

(* Program constants *)

BATCH_SIZE == 15
min_words == 1800
max_expansion_attempts == 2
quote_limit == 200

\* longest response text of the parser specification
MaxChars == 9

-----------------------------------------------------------------------------
(* Generic helpers.  A text is a string, or a tuple of the pieces an     *)
(* f-string joins; titles are always tuples.                            *)

Min(a, b) == IF a <= b THEN a ELSE b

SeqsUpTo(S, n) == UNION {[1..k -> S] : k \in 0..n}

\* dict.get(key, default)
Get(d, key, default) == IF key \in DOMAIN d THEN d[key] ELSE default

\* key in dict
Has(d, key) == key \in DOMAIN d

\* whether a decoded list member is a JSON object (has .get)
IsObject(v) == ~ Has(v, "json_type")

None == "None"
NoResponse == [kind |-> "none"]

NotAnObject == [json_type |-> "string"]

\* a source quote of n characters; the k-th character is the digit k % 10
Quote(n) == [k \in 1..n |-> k % 10]

\* json_str before _extract_json has been applied
NoPayload == [generator |-> <<>>, verifier |-> <<>>, extractor |-> <<>>, raised |-> "unset"]


-----------------------------------------------------------------------------
(* Backend responses *)

TransportError == [kind |-> "transport_error"]
InvalidJson == [kind |-> "invalid_json"]
NotObject == [kind |-> "not_object"]
Object(d) == [kind |-> "object", data |-> d]

-----------------------------------------------------------------------------
(* models.py: the validated record types *)

\* ClaimVerification.status: Literal["SUPPORTED", "PARTIALLY_SUPPORTED", "NOT_FOUND"]
ClaimStatus == {"SUPPORTED", "PARTIALLY_SUPPORTED", "NOT_FOUND"}

\* ClaimVerification(...): pydantic raises ValidationError unless this holds
ClaimVerificationValid(v) == v.status \in ClaimStatus

-----------------------------------------------------------------------------
(* verifier.py: _extract_claims *)

\* ExtractedClaim(claim=c["claim"], script_context=c["script_context"],
\*                line_index=c.get("line_index", 0)): what it raises, or "none"
ClaimError(c) ==
    IF ~ IsObject(c) THEN "TypeError"
    ELSE IF ~ Has(c, "claim") \/ ~ Has(c, "script_context") THEN "KeyError"
    ELSE "none"

MakeClaim(c) ==
    [claim |-> c.claim, script_context |-> c.script_context,
     line_index |-> Get(c, "line_index", 0)]

\* what json.loads and the try body of _extract_claims raise, or "none"
ClaimsError(r) ==
    LET cs == IF r.kind = "object" THEN Get(r.data, "claims", <<>>) ELSE <<>>
        bad == {j \in 1..Len(cs) : ClaimError(cs[j]) # "none"}
    IN  CASE r.kind = "transport_error" -> "APIError"
          [] r.kind = "invalid_json" -> "JSONDecodeError"
          [] r.kind = "not_object" -> "AttributeError"
          [] r.kind = "object" ->
                IF bad = {} THEN "none"
                ELSE ClaimError(cs[CHOOSE j \in bad : \A k \in bad : j <= k])
          [] OTHER -> "none"

\* faulty variant: the handler catches decode errors only
ClaimsCaught_DecodeOnly(e) == e = "JSONDecodeError"

\* faulty variant: the handler swallows the failure of the port call too
ClaimsCaught_PortErrorToo(e) == e \in {"JSONDecodeError", "KeyError", "APIError"}

\* except (json.JSONDecodeError, KeyError)
ClaimsCaught(e) == e \in {"JSONDecodeError", "KeyError"}

\* the list _extract_claims returns
extract_claims_result(r) ==
    IF ClaimsCaught(ClaimsError(r)) THEN <<>>
    ELSE LET cs == Get(r.data, "claims", <<>>)
         IN  [j \in 1..Len(cs) |-> MakeClaim(cs[j])]

\* the text of the k-th claim a backend reports
ClaimText(k) == <<"claim", k>>

\* a well-formed "claims" list of n entries: distinct claim texts, repeating
\* contexts, the line index of the k-th claim being k - 1
ClaimEntries(n) ==
    [k \in 1..n |-> [claim |-> ClaimText(k), script_context |-> <<"line", k % 3>>,
                     line_index |-> k - 1]]

\* _extract_claims, and the start of _verify_claims_batched (verifications = [])
extract_claims(R) ==
    /\ pc = "claims"
    /\ raised = "none"
    /\ \E r \in R :
        LET err == ClaimsError(r)
        IN  /\ response' = r
            /\ calls' = Append(calls, "claims")
            /\ IF err = "none" \/ ClaimsCaught(err)
               THEN /\ raised' = "none"
                    /\ claims' = extract_claims_result(r)
                    /\ pc' = "verify"
               ELSE /\ raised' = err
                    /\ UNCHANGED <<claims, pc>>
    /\ UNCHANGED <<config, sections, plan, script, attempt, batch_start, batch_log,
                   verifications, coverage, report, written>>
    /\ UNCHANGED <<script_md, key_points_with_sources, response_text, json_str>>

-----------------------------------------------------------------------------
(* verifier.py: _verify_claims_batched *)

\* the n claims _extract_claims returns for a well-formed list of n entries
ClaimList(n) == extract_claims_result(Object([claims |-> ClaimEntries(n)]))

\* faulty variant: the batch ends one claim early
BatchEnd_OneShort(start, n) == Min(start + BATCH_SIZE - 1, n)

\* batch_end = min(batch_start + BATCH_SIZE, len(claims))
BatchEnd(start, n) == Min(start + BATCH_SIZE, n)

\* faulty variant: every batch is cut from the head of the list
Batch_FromHead(cs, start) == SubSeq(cs, 1, BatchEnd(start, Len(cs)) - start)

\* batch = claims[batch_start:batch_end]
Batch(cs, start) == SubSeq(cs, start + 1, BatchEnd(start, Len(cs)))

\* faulty variant: range without its step
NextBatchStart_StepOne(start) == start + 1

\* range(0, len(claims), BATCH_SIZE): the next value of batch_start
NextBatchStart(start) == start + BATCH_SIZE

\* v.get("claim_id") == i
MatchesClaimId(v, i) == Has(v, "claim_id") /\ v.claim_id = i

\* position in batch_verifications of the first entry next(...) accepts for
\* local index i, or 0 when the generator is exhausted
FirstMatch(bv, i) ==
    LET hits == {j \in 1..Len(bv) : IsObject(bv[j]) /\ MatchesClaimId(bv[j], i)}
    IN  IF hits = {} THEN 0
        ELSE CHOOSE j \in hits : \A k \in hits : j <= k

\* the scan for local index i calls .get on a member that is no object
\* before it finds a match: AttributeError
ScanRaises(bv, i) ==
    \E j \in 1..Len(bv) :
        /\ ~ IsObject(bv[j])
        /\ FirstMatch(bv, i) = 0 \/ j < FirstMatch(bv, i)

\* the default of next(...)
NoVerificationReturned ==
    [status |-> "NOT_FOUND", explanation |-> "No verification returned"]

\* faulty variant: the last matching entry wins
VData_LastMatch(bv, i) ==
    LET hits == {j \in 1..Len(bv) : IsObject(bv[j]) /\ MatchesClaimId(bv[j], i)}
    IN  IF hits = {} THEN NoVerificationReturned
        ELSE bv[CHOOSE j \in hits : \A k \in hits : j >= k]

\* v_data = next((v for v in batch_verifications if v.get("claim_id") == i), default)
VData(bv, i) ==
    IF FirstMatch(bv, i) = 0 THEN NoVerificationReturned
    ELSE bv[FirstMatch(bv, i)]

\* ClaimVerification(claim=claim.claim, ..., explanation=v_data.get("explanation", ""))
MakeVerification(claim, v) ==
    [claim          |-> claim.claim,
     script_context |-> claim.script_context,
     source_page    |-> Get(v, "source_page", None),
     source_quote   |-> Get(v, "source_quote", None),
     status         |-> Get(v, "status", "NOT_FOUND"),
     explanation    |-> Get(v, "explanation", "")]

\* the except branch: every claim of the batch marked unverified
FailedVerification(claim) ==
    [claim          |-> claim.claim,
     script_context |-> claim.script_context,
     source_page    |-> None,
     source_quote   |-> None,
     status         |-> "NOT_FOUND",
     explanation    |-> "Batch verification failed"]

\* the exception the loop body raises at local index i, or "none"
ErrorAt(batch, bv, i) ==
    IF ScanRaises(bv, i) THEN "AttributeError"
    ELSE IF ~ ClaimVerificationValid(MakeVerification(batch[i + 1], VData(bv, i)))
         THEN "ValidationError"
         ELSE "none"

\* the first exception of "for i, claim in enumerate(batch)", or "none"
BatchError(batch, bv) ==
    LET bad == {i \in 0..(Len(batch) - 1) : ErrorAt(batch, bv, i) # "none"}
    IN  IF bad = {} THEN "none"
        ELSE ErrorAt(batch, bv, CHOOSE i \in bad : \A k \in bad : i <= k)

\* the verifications the try branch appends for one batch
ParsedVerifications(batch, bv) ==
    [k \in 1..Len(batch) |-> MakeVerification(batch[k], VData(bv, k - 1))]

\* faulty variant: the except branch records the batch once, not claim by claim
FailedVerifications_Once(batch) ==
    IF batch = <<>> THEN <<>> ELSE <<FailedVerification(batch[1])>>

\* the verifications the except branch appends for one batch
FailedVerifications(batch) ==
    [k \in 1..Len(batch) |-> FailedVerification(batch[k])]

\* entries a backend may put in "verifications"
VerificationEntries ==
    { [claim_id |-> 0, status |-> "SUPPORTED", explanation |-> "stated on the page",
       source_page |-> "p3", source_quote |-> "quote"],
      [claim_id |-> 0, status |-> "PARTIALLY_SUPPORTED", explanation |-> "numbers differ"],
      [claim_id |-> 1, source_page |-> "p4"],
      [claim_id |-> 1, status |-> "MAYBE", explanation |-> "unsure"],
      [claim_id |-> BATCH_SIZE, status |-> "SUPPORTED", explanation |-> "stated on the page"],
      [status |-> "SUPPORTED", explanation |-> "no id"],
      NotAnObject }

\* responses to one batch prompt
BatchResponses ==
    {TransportError, InvalidJson, NotObject, Object([note |-> "no list"])}
    \cup {Object([verifications |-> s]) : s \in SeqsUpTo(VerificationEntries, MaxEntries)}

\* what the run remembers of a finished batch
BatchRecord(start, batch, outcome) ==
    [start |-> start, size |-> Len(batch), outcome |-> outcome]

\* one iteration of "for batch_start in range(0, len(claims), BATCH_SIZE)":
\* the port call, the decoding and the appends
verify_claims_batched(R) ==
    /\ pc = "verify"
    /\ raised = "none"
    /\ batch_start < Len(claims)
    /\ \E r \in R :
        LET batch == Batch(claims, batch_start)
            bv == IF r.kind = "object" THEN Get(r.data, "verifications", <<>>) ELSE <<>>
            err == CASE r.kind = "transport_error" -> "APIError"
                     [] r.kind = "not_object" -> "AttributeError"
                     [] r.kind = "object" -> BatchError(batch, bv)
                     [] OTHER -> "none"
        IN  /\ response' = r
            /\ calls' = Append(calls, "verify")
            /\ raised' = err
            /\ IF err # "none"
               THEN UNCHANGED <<verifications, batch_start, batch_log>>
               ELSE /\ batch_start' = NextBatchStart(batch_start)
                    /\ IF r.kind = "invalid_json"
                       THEN /\ verifications' = verifications \o FailedVerifications(batch)
                            /\ batch_log' = Append(batch_log, BatchRecord(batch_start, batch, "failed"))
                       ELSE /\ verifications' = verifications \o ParsedVerifications(batch, bv)
                            /\ batch_log' = Append(batch_log, BatchRecord(batch_start, batch, "parsed"))
    /\ UNCHANGED <<pc, config, sections, plan, script, attempt, claims, coverage, report, written>>
    /\ UNCHANGED <<script_md, key_points_with_sources, response_text, json_str>>

\* faulty variant: the stage returns while batches are still waiting
verify_claims_return_Early ==
    /\ pc = "verify"
    /\ raised = "none"
    /\ pc' = "coverage"
    /\ UNCHANGED <<raised, response, calls, config, sections, plan, script, attempt, claims,
                   batch_start, batch_log, verifications, coverage, report, written>>
    /\ UNCHANGED <<script_md, key_points_with_sources, response_text, json_str>>

\* the loop is exhausted: return verifications
verify_claims_return ==
    /\ pc = "verify"
    /\ raised = "none"
    /\ batch_start >= Len(claims)
    /\ pc' = "coverage"
    /\ UNCHANGED <<raised, response, calls, config, sections, plan, script, attempt, claims,
                   batch_start, batch_log, verifications, coverage, report, written>>
    /\ UNCHANGED <<script_md, key_points_with_sources, response_text, json_str>>

-----------------------------------------------------------------------------
(* extractor.py: extract_document, _extract_section, _extract_key_points *)

\* KeyPoint.category: Literal["fact", "strategy", "market", "context"]
Categories == {"fact", "strategy", "market", "context"}

\* faulty variant: the configured page number is taken as the 0-based index
PageInRange_ZeroBased(page_num, total) == 0 <= page_num /\ page_num < total

\* if 0 <= page_idx < len(doc), with page_idx = page_num - 1
PageInRange(page_num, total) == 0 <= page_num - 1 /\ page_num - 1 < total

\* raw_text: one page-marked block per configured page in range, in the
\* configured order; a block is known by its page number
RawText(pages, total) ==
    LET Keep(page_num) == PageInRange(page_num, total)
    IN  SelectSeq(pages, Keep)

\* KeyPoint(point=kp["point"], category=kp["category"],
\*          source_quote=kp["source_quote"], page=kp["page"]):
\* what building the key point from member kp raises, or "none"
KeyPointError(kp) ==
    IF ~ IsObject(kp) THEN "TypeError"
    ELSE IF \E key \in {"point", "category", "source_quote", "page"} : ~ Has(kp, key)
         THEN "KeyError"
    ELSE IF kp.category \notin Categories THEN "ValidationError"
    ELSE "none"

\* what json.loads and the try body of _extract_key_points raise, or "none"
KeyPointsError(r) ==
    LET kps == IF r.kind = "object" THEN Get(r.data, "key_points", <<>>) ELSE <<>>
        bad == {j \in 1..Len(kps) : KeyPointError(kps[j]) # "none"}
    IN  CASE r.kind = "transport_error" -> "APIError"
          [] r.kind = "invalid_json" -> "JSONDecodeError"
          [] r.kind = "not_object" -> "AttributeError"
          [] r.kind = "object" ->
                IF bad = {} THEN "none"
                ELSE KeyPointError(kps[CHOOSE j \in bad : \A k \in bad : j <= k])
          [] OTHER -> "none"

\* except json.JSONDecodeError
KeyPointsCaught(e) == e = "JSONDecodeError"

\* the list _extract_key_points returns
extract_key_points(r) ==
    IF KeyPointsCaught(KeyPointsError(r)) THEN <<>>
    ELSE Get(r.data, "key_points", <<>>)

\* faulty variant: a section without text in range is recorded without a call
extract_section_SkipsEmpty(R) ==
    /\ pc = "extract"
    /\ raised = "none"
    /\ Len(sections) < Len(config.sections)
    /\ \E r \in R :
        LET section_config == config.sections[Len(sections) + 1]
            raw_text == RawText(section_config.pages, config.total_pages)
            err == IF raw_text = <<>> THEN "none" ELSE KeyPointsError(r)
        IN  /\ response' = IF raw_text = <<>> THEN response ELSE r
            /\ calls' = IF raw_text = <<>> THEN calls ELSE Append(calls, "extract")
            /\ IF err = "none" \/ KeyPointsCaught(err)
               THEN /\ raised' = "none"
                    /\ sections' = Append(sections,
                          [name |-> section_config.name,
                           pages |-> section_config.pages,
                           raw_text |-> raw_text,
                           key_points |-> IF raw_text = <<>> THEN <<>>
                                          ELSE extract_key_points(r)])
               ELSE /\ raised' = err
                    /\ UNCHANGED sections
    /\ UNCHANGED <<pc, config, plan, script, attempt, claims, batch_start, batch_log,
                   verifications, coverage, report, written>>
    /\ UNCHANGED <<script_md, key_points_with_sources, response_text, json_str>>

\* one iteration of "for section_config in config.sections":
\* _extract_section with its port call
extract_section(R) ==
    /\ pc = "extract"
    /\ raised = "none"
    /\ Len(sections) < Len(config.sections)
    /\ \E r \in R :
        LET section_config == config.sections[Len(sections) + 1]
            err == KeyPointsError(r)
        IN  /\ response' = r
            /\ calls' = Append(calls, "extract")
            /\ IF err = "none" \/ KeyPointsCaught(err)
               THEN /\ raised' = "none"
                    /\ sections' = Append(sections,
                          [name |-> section_config.name,
                           pages |-> section_config.pages,
                           raw_text |-> RawText(section_config.pages, config.total_pages),
                           key_points |-> extract_key_points(r)])
               ELSE /\ raised' = err
                    /\ UNCHANGED sections
    /\ UNCHANGED <<pc, config, plan, script, attempt, claims, batch_start, batch_log,
                   verifications, coverage, report, written>>
    /\ UNCHANGED <<script_md, key_points_with_sources, response_text, json_str>>

\* the loop is exhausted: return ExtractedDocument(title, sections)
extract_document_return ==
    /\ pc = "extract"
    /\ raised = "none"
    /\ Len(sections) >= Len(config.sections)
    /\ pc' = "plan"
    /\ UNCHANGED <<raised, response, calls, config, sections, plan, script, attempt,
                   claims, batch_start, batch_log, verifications, coverage, report,
                   written>>
    /\ UNCHANGED <<script_md, key_points_with_sources, response_text, json_str>>

-----------------------------------------------------------------------------
(* generator.py: _create_plan *)

\* PodcastSegment(title=s["title"], key_points_to_cover=s["key_points_to_cover"],
\*                approach=s["approach"]): what it raises for member s, or "none"
SegmentError(seg) ==
    IF ~ IsObject(seg) THEN "TypeError"
    ELSE IF \E key \in {"title", "key_points_to_cover", "approach"} : ~ Has(seg, key)
         THEN "KeyError"
    ELSE "none"

\* what json.loads and the try body of _create_plan raise, or "none": the
\* segments are built first, then data["title"] .. data["takeaway"] are read
PlanError(r) ==
    LET segs == IF r.kind = "object" THEN Get(r.data, "segments", <<>>) ELSE <<>>
        bad == {j \in 1..Len(segs) : SegmentError(segs[j]) # "none"}
    IN  CASE r.kind = "transport_error" -> "APIError"
          [] r.kind = "invalid_json" -> "JSONDecodeError"
          [] r.kind = "not_object" -> "AttributeError"
          [] r.kind = "object" ->
                IF bad # {}
                THEN SegmentError(segs[CHOOSE j \in bad : \A k \in bad : j <= k])
                ELSE IF \E key \in {"title", "opening_hook", "friction_moment", "takeaway"} :
                            ~ Has(r.data, key)
                     THEN "KeyError"
                ELSE "none"
          [] OTHER -> "none"

\* except (json.JSONDecodeError, KeyError)
PlanCaught(e) == e \in {"JSONDecodeError", "KeyError"}

\* faulty variant: the default plan takes the document title as it is
DefaultPlan_BareTitle(title) ==
    [title |-> <<title>>,
     opening_hook |-> "Let's explore what this document reveals...",
     segments |-> <<>>,
     friction_moment |-> "Hosts discuss implications",
     takeaway |-> "Key insights from the document"]

\* the default plan of the except branch; the title is f"Deep Dive: {doc.title}"
DefaultPlan(title) ==
    [title |-> <<"Deep Dive: ", title>>,
     opening_hook |-> "Let's explore what this document reveals...",
     segments |-> <<>>,
     friction_moment |-> "Hosts discuss implications",
     takeaway |-> "Key insights from the document"]

\* the plan _create_plan returns
create_plan_result(r, title) ==
    IF PlanCaught(PlanError(r)) THEN DefaultPlan(title)
    ELSE [title |-> r.data.title,
          opening_hook |-> r.data.opening_hook,
          segments |-> Get(r.data, "segments", <<>>),
          friction_moment |-> r.data.friction_moment,
          takeaway |-> r.data.takeaway]

\* _create_plan: the single call, the decoding and the plan
create_plan(R) ==
    /\ pc = "plan"
    /\ raised = "none"
    /\ \E r \in R :
        LET err == PlanError(r)
        IN  /\ response' = r
            /\ calls' = Append(calls, "plan")
            /\ IF err = "none" \/ PlanCaught(err)
               THEN /\ raised' = "none"
                    /\ plan' = create_plan_result(r, config.title)
                    /\ pc' = "dialogue"
               ELSE /\ raised' = err
                    /\ UNCHANGED <<plan, pc>>
    /\ UNCHANGED <<config, sections, script, attempt, claims, batch_start, batch_log,
                   verifications, coverage, report, written>>
    /\ UNCHANGED <<script_md, key_points_with_sources, response_text, json_str>>

-----------------------------------------------------------------------------
(* generator.py: _generate_dialogue, _parse_dialogue_json, _expand_script *)

\* faulty variant: a third speaker passes the validation
Speakers_WithGuest == {"Alex", "Jordan", "Bob"}

\* DialogueLine.speaker: Literal["Alex", "Jordan"]
Speakers == {"Alex", "Jordan"}

\* len(line.text.split()): a text is known by its identity and its tokens
Words(text) == text.words

RECURSIVE SumWords(_)
SumWords(dialogue) ==
    IF dialogue = <<>> THEN 0
    ELSE Words(Head(dialogue).text) + SumWords(Tail(dialogue))

\* faulty variant: a short script is reported at the target length
word_count_AtLeastTarget(s) ==
    IF SumWords(s.dialogue) < min_words THEN min_words ELSE SumWords(s.dialogue)

\* PodcastScript.word_count
word_count(s) == SumWords(s.dialogue)

\* faulty variant: the cue is rendered whether there is one or not
Emotion_Always(line) == <<" ", line.emotion_cue>>

\* emotion = f" {line.emotion_cue}" if line.emotion_cue else ""
Emotion(line) ==
    IF line.emotion_cue # None /\ line.emotion_cue # ""
    THEN <<" ", line.emotion_cue>>
    ELSE <<>>

\* f"**{line.speaker}:**{emotion} {line.text}", as the pieces it joins
MarkdownLine(line) ==
    <<"**", line.speaker, ":**">> \o Emotion(line) \o <<" ", line.text>>

\* the two lines to_markdown appends per dialogue line: the line, then ""
RECURSIVE DialogueMarkdown(_)
DialogueMarkdown(dialogue) ==
    IF dialogue = <<>> THEN <<>>
    ELSE <<MarkdownLine(Head(dialogue)), <<>>>> \o DialogueMarkdown(Tail(dialogue))

\* PodcastScript.to_markdown: the lines joined by "\n", a line being the
\* tuple of its pieces and the empty line the empty tuple
to_markdown(s) ==
    << <<"# ", s.title>>, <<>>, <<"*~", word_count(s), " words*">>, <<>>, <<"---">>, <<>> >>
    \o DialogueMarkdown(s.dialogue)
    \o << <<"---">>, <<>>, <<"**Friction Moment:** ", s.friction_moment_summary>>, <<>>,
          <<"**Key Takeaway:** ", s.takeaway_summary>> >>

\* the except branch of _parse_dialogue_json
EmptyScript(p) ==
    [title |-> p.title,
     dialogue |-> <<>>,
     friction_moment_summary |-> p.friction_moment,
     takeaway_summary |-> p.takeaway]

\* DialogueLine(speaker=d["speaker"], text=d["text"], emotion_cue=d.get("emotion_cue")):
\* what building the line from member d raises, or "none"
LineError(d) ==
    IF ~ IsObject(d) THEN "TypeError"
    ELSE IF ~ Has(d, "speaker") \/ ~ Has(d, "text") THEN "KeyError"
    ELSE IF d.speaker \notin Speakers THEN "ValidationError"
    ELSE "none"

MakeLine(d) ==
    [speaker |-> d.speaker, text |-> d.text, emotion_cue |-> Get(d, "emotion_cue", None)]

\* the first exception of the list comprehension over data.get("dialogue", [])
LinesError(ds) ==
    LET bad == {j \in 1..Len(ds) : LineError(ds[j]) # "none"}
    IN  IF bad = {} THEN "none"
        ELSE LineError(ds[CHOOSE j \in bad : \A k \in bad : j <= k])

\* what json.loads and the try body of _parse_dialogue_json raise, or "none"
DialogueError(r) ==
    CASE r.kind = "invalid_json" -> "JSONDecodeError"
      [] r.kind = "not_object" -> "AttributeError"
      [] r.kind = "object" -> LinesError(Get(r.data, "dialogue", <<>>))
      [] OTHER -> "none"

\* except (json.JSONDecodeError, KeyError)
DialogueCaught(e) == e \in {"JSONDecodeError", "KeyError"}

\* _parse_dialogue_json(json_str, plan), when it returns
parse_dialogue_json(r, p) ==
    IF DialogueCaught(DialogueError(r)) THEN EmptyScript(p)
    ELSE LET ds == Get(r.data, "dialogue", <<>>)
         IN  [title |-> Get(r.data, "title", p.title),
              dialogue |-> [j \in 1..Len(ds) |-> MakeLine(ds[j])],
              friction_moment_summary |-> Get(r.data, "friction_moment_summary", p.friction_moment),
              takeaway_summary |-> Get(r.data, "takeaway_summary", p.takeaway)]

\* faulty variant: a quote of exactly quote_limit characters is cut as well
QuotePieces_AtLimit(q) ==
    IF Len(q) >= quote_limit
    THEN <<SubSeq(q, 1, quote_limit), "...\"">>
    ELSE <<q, "\"">>

\* "{kp.source_quote[:200]}...\"" if len(kp.source_quote) > 200
\* else "{kp.source_quote}\"": the quote emitted and what closes it
QuotePieces(q) ==
    IF Len(q) > quote_limit
    THEN <<SubSeq(q, 1, quote_limit), "...\"">>
    ELSE <<q, "\"">>

\* the two lines appended per key point
RECURSIVE KeyPointLines(_)
KeyPointLines(kps) ==
    IF kps = <<>> THEN <<>>
    ELSE << <<"- ", Head(kps).point>>,
            <<"  Source (p.", Head(kps).page, "): \"">> \o QuotePieces(Head(kps).source_quote) >>
         \o KeyPointLines(Tail(kps))

\* _format_key_points_with_sources(doc): the lines joined by "\n"
RECURSIVE format_key_points_with_sources(_)
format_key_points_with_sources(secs) ==
    IF secs = <<>> THEN <<>>
    ELSE << <<"\n## ", Head(secs).name>> >>
         \o KeyPointLines(Head(secs).key_points)
         \o format_key_points_with_sources(Tail(secs))

\* the exception a dialogue or expansion call lets through, or "none"
DialogueRaised(r) ==
    IF r.kind = "transport_error" THEN "APIError"
    ELSE IF DialogueCaught(DialogueError(r)) THEN "none"
    ELSE DialogueError(r)

\* faulty variant: a script of exactly min_words is expanded too
ExpansionNeeded_AtTarget(s, a) == a < max_expansion_attempts /\ word_count(s) <= min_words

\* faulty variant: the loop has no cap on the attempts
ExpansionNeeded_NoCap(s, a) == word_count(s) < min_words

\* the loop body runs again: range(max_expansion_attempts) is not exhausted
\* and the script is below min_words
ExpansionNeeded(s, a) == a < max_expansion_attempts /\ word_count(s) < min_words

ShortText == [id |-> "short", words |-> 1]
AlmostText == [id |-> "almost", words |-> min_words - 1]

\* members a backend may put in "dialogue"
DialogueEntries ==
    { [speaker |-> "Alex", text |-> ShortText, emotion_cue |-> "[laughs]"],
      [speaker |-> "Jordan", text |-> AlmostText],
      [speaker |-> "Bob", text |-> ShortText],
      [text |-> ShortText] }

\* responses to the dialogue prompt and to an expansion prompt
DialogueResponses ==
    {TransportError, InvalidJson, NotObject, Object([title |-> <<"Retitled">>])}
    \cup {Object([dialogue |-> s]) : s \in SeqsUpTo(DialogueEntries, MaxLines)}

\* _generate_dialogue up to the loop: the initial call and its parsing
generate_dialogue(R) ==
    /\ pc = "dialogue"
    /\ raised = "none"
    /\ \E r \in R :
        /\ response' = r
        /\ calls' = Append(calls, "dialogue")
        /\ raised' = DialogueRaised(r)
        /\ IF DialogueRaised(r) # "none"
           THEN UNCHANGED <<pc, script, attempt>>
           ELSE /\ script' = parse_dialogue_json(r, plan)
                /\ attempt' = 0
                /\ pc' = "expand"
    /\ UNCHANGED <<config, sections, plan, claims, batch_start, batch_log, verifications,
                   coverage, report, written>>
    /\ key_points_with_sources' = format_key_points_with_sources(sections)
    /\ UNCHANGED <<script_md, response_text, json_str>>

\* one iteration of "for attempt in range(max_expansion_attempts)" that does
\* not break: script = self._expand_script(script, plan, key_points_with_sources)
expand_script(R) ==
    /\ pc = "expand"
    /\ raised = "none"
    /\ ExpansionNeeded(script, attempt)
    /\ \E r \in R :
        /\ response' = r
        /\ calls' = Append(calls, "expand")
        /\ raised' = DialogueRaised(r)
        /\ IF DialogueRaised(r) # "none"
           THEN UNCHANGED <<script, attempt>>
           ELSE /\ script' = parse_dialogue_json(r, plan)
                /\ attempt' = attempt + 1
    /\ UNCHANGED <<pc, config, sections, plan, claims, batch_start, batch_log, verifications,
                   coverage, report, written>>
    /\ UNCHANGED <<script_md, key_points_with_sources, response_text, json_str>>

\* break, or the range is exhausted: return script
generate_dialogue_return ==
    /\ pc = "expand"
    /\ raised = "none"
    /\ ~ ExpansionNeeded(script, attempt)
    /\ pc' = "claims"
    /\ UNCHANGED <<raised, response, calls, config, sections, plan, script, attempt, claims,
                   batch_start, batch_log, verifications, coverage, report, written>>
    /\ UNCHANGED <<script_md, key_points_with_sources, response_text, json_str>>

-----------------------------------------------------------------------------
(* verifier.py: _analyze_coverage_batched *)

\* CoverageItem.status: Literal["FULL", "PARTIAL", "OMITTED"]
CoverageStatus == {"FULL", "PARTIAL", "OMITTED"}

\* CoverageItem(...): pydantic raises ValidationError unless this holds
CoverageItemValid(c) == c.status \in CoverageStatus

\* [kp.point for kp in section.key_points]
Points(section) == [j \in 1..Len(section.key_points) |-> section.key_points[j].point]

\* c.get("section") == section.name
MatchesSection(c, name) == Has(c, "section") /\ c.section = name

\* position in data.get("coverage", []) of the first entry next(...) accepts
\* for the section, or 0 when the generator is exhausted (c_data is None)
FirstCoverage(cs, name) ==
    LET hits == {j \in 1..Len(cs) : IsObject(cs[j]) /\ MatchesSection(cs[j], name)}
    IN  IF hits = {} THEN 0
        ELSE CHOOSE j \in hits : \A k \in hits : j <= k

\* the scan for the section calls .get on a member that is no object before
\* it finds a match: AttributeError
CoverageScanRaises(cs, name) ==
    \E j \in 1..Len(cs) :
        /\ ~ IsObject(cs[j])
        /\ FirstCoverage(cs, name) = 0 \/ j < FirstCoverage(cs, name)

\* faulty variant: the default lists nothing as omitted, like the "if c_data" branch
DefaultCoverage_NothingOmitted(section) ==
    [section |-> section.name,
     status |-> "PARTIAL",
     key_points_total |-> Len(section.key_points),
     key_points_covered |-> 0,
     covered |-> <<>>,
     omitted |-> <<>>]

\* the else branch and the except branch: the safe default
DefaultCoverage(section) ==
    [section |-> section.name,
     status |-> "PARTIAL",
     key_points_total |-> Len(section.key_points),
     key_points_covered |-> 0,
     covered |-> <<>>,
     omitted |-> Points(section)]

\* the "if c_data" branch
ReportedCoverage(section, c) ==
    [section |-> section.name,
     status |-> Get(c, "status", "PARTIAL"),
     key_points_total |-> Get(c, "key_points_total", Len(section.key_points)),
     key_points_covered |-> Get(c, "key_points_covered", 0),
     covered |-> Get(c, "covered", <<>>),
     omitted |-> Get(c, "omitted", <<>>)]

\* the CoverageItem the try branch appends for one section
CoverageFor(section, cs) ==
    IF FirstCoverage(cs, section.name) = 0 THEN DefaultCoverage(section)
    ELSE ReportedCoverage(section, cs[FirstCoverage(cs, section.name)])

\* the exception the loop body raises for one section, or "none"
CoverageErrorAt(section, cs) ==
    IF CoverageScanRaises(cs, section.name) THEN "AttributeError"
    ELSE IF ~ CoverageItemValid(CoverageFor(section, cs)) THEN "ValidationError"
    ELSE "none"

\* what the try body raises, or "none": data.get runs once per section
CoverageError(r, secs) ==
    LET cs == IF r.kind = "object" THEN Get(r.data, "coverage", <<>>) ELSE <<>>
        bad == {j \in 1..Len(secs) : CoverageErrorAt(secs[j], cs) # "none"}
    IN  CASE r.kind = "transport_error" -> "APIError"
          [] r.kind = "invalid_json" -> "JSONDecodeError"
          [] r.kind = "not_object" -> IF secs = <<>> THEN "none" ELSE "AttributeError"
          [] r.kind = "object" ->
                IF bad = {} THEN "none"
                ELSE CoverageErrorAt(secs[CHOOSE j \in bad : \A k \in bad : j <= k], cs)
          [] OTHER -> "none"

\* except (json.JSONDecodeError, KeyError)
CoverageCaught(e) == e \in {"JSONDecodeError", "KeyError"}

\* the list _analyze_coverage_batched returns
CoverageItems(r, secs) ==
    IF CoverageCaught(CoverageError(r, secs))
    THEN [j \in 1..Len(secs) |-> DefaultCoverage(secs[j])]
    ELSE LET cs == IF r.kind = "object" THEN Get(r.data, "coverage", <<>>) ELSE <<>>
         IN  [j \in 1..Len(secs) |-> CoverageFor(secs[j], cs)]

\* entries a backend may put in "coverage"
CoverageEntries ==
    { [section |-> "Intro", status |-> "FULL", key_points_total |-> 2,
       key_points_covered |-> 2, covered |-> <<"revenue grew", "new markets">>,
       omitted |-> <<>>],
      [section |-> "Intro"],
      [section |-> "intro", status |-> "FULL", key_points_total |-> 2,
       key_points_covered |-> 2, covered |-> <<"revenue grew", "new markets">>,
       omitted |-> <<>>],
      [section |-> "Market", status |-> "OMITTED", key_points_total |-> 1,
       key_points_covered |-> 3],
      [section |-> "Market", status |-> "MOSTLY"],
      [status |-> "FULL", key_points_covered |-> 1],
      NotAnObject }

\* responses to the coverage prompt
CoverageResponses ==
    {TransportError, InvalidJson, NotObject, Object([note |-> "no list"])}
    \cup {Object([coverage |-> s]) : s \in SeqsUpTo(CoverageEntries, MaxEntries)}

\* _analyze_coverage_batched: the single call, the decoding and the items
analyze_coverage_batched(R) ==
    /\ pc = "coverage"
    /\ raised = "none"
    /\ \E r \in R :
        LET err == CoverageError(r, sections)
        IN  /\ response' = r
            /\ calls' = Append(calls, "coverage")
            /\ IF err = "none" \/ CoverageCaught(err)
               THEN /\ raised' = "none"
                    /\ coverage' = CoverageItems(r, sections)
                    /\ pc' = "aggregate"
               ELSE /\ raised' = err
                    /\ UNCHANGED <<coverage, pc>>
    /\ UNCHANGED <<config, sections, plan, script, attempt, claims, batch_start, batch_log,
                   verifications, report, written>>
    /\ UNCHANGED <<script_md, key_points_with_sources, response_text, json_str>>

-----------------------------------------------------------------------------
(* verifier.py: verify_script, the statistics and the report *)

\* faulty variant: only the verifications of the first batch are counted
CountStatus_FirstBatch(vs, st) ==
    Cardinality({k \in 1..Min(Len(vs), BATCH_SIZE) : vs[k].status = st})

\* sum(1 for v in verifications if v.status == st)
CountStatus(vs, st) == Cardinality({k \in 1..Len(vs) : vs[k].status = st})

RECURSIVE SumField(_, _)
SumField(items, field) ==
    IF items = <<>> THEN 0
    ELSE Head(items)[field] + SumField(Tail(items), field)

\* faulty variant: everything short of SUPPORTED is flagged
Hallucinations_NotSupported(vs) ==
    LET Flagged(v) == v.status # "SUPPORTED"
    IN  SelectSeq(vs, Flagged)

\* [v for v in verifications if v.status == "NOT_FOUND"]
Hallucinations(vs) ==
    LET NotFound(v) == v.status = "NOT_FOUND"
    IN  SelectSeq(vs, NotFound)

\* a rate is the exact quotient num / den
Rate(num, den) == [num |-> num, den |-> den]

\* faulty variant: a partially supported claim counts in full
SupportRate_PartialFull(vs) ==
    IF vs = <<>> THEN Rate(0, 1)
    ELSE Rate((2 * CountStatus(vs, "SUPPORTED")
               + 2 * CountStatus(vs, "PARTIALLY_SUPPORTED")) * 50, Len(vs))

\* (supported + partial * 0.5) / len(verifications) * 100 if verifications else 0
SupportRate(vs) ==
    IF vs = <<>> THEN Rate(0, 1)
    ELSE Rate((2 * CountStatus(vs, "SUPPORTED")
               + CountStatus(vs, "PARTIALLY_SUPPORTED")) * 50, Len(vs))

\* covered_key_points / total_key_points * 100 if total_key_points > 0 else 0
CoveragePct(cov) ==
    IF SumField(cov, "key_points_total") > 0
    THEN Rate(SumField(cov, "key_points_covered") * 100, SumField(cov, "key_points_total"))
    ELSE Rate(0, 1)

\* verify_script after the three steps: the VerificationReport
aggregate ==
    /\ pc = "aggregate"
    /\ raised = "none"
    /\ report' =
         [document_title |-> config.title,
          script_title |-> script.title,
          script_word_count |-> word_count(script),
          total_claims |-> Len(claims),
          supported_claims |-> CountStatus(verifications, "SUPPORTED"),
          partially_supported_claims |-> CountStatus(verifications, "PARTIALLY_SUPPORTED"),
          unsupported_claims |-> CountStatus(verifications, "NOT_FOUND"),
          support_rate |-> SupportRate(verifications),
          overall_coverage_percentage |-> CoveragePct(coverage),
          claim_verifications |-> verifications,
          coverage_analysis |-> coverage,
          hallucination_flags |-> Hallucinations(verifications)]
    /\ pc' = "save"
    /\ UNCHANGED <<raised, response, calls, config, sections, plan, script, attempt,
                   claims, batch_start, batch_log, verifications, coverage, written>>
    /\ UNCHANGED <<script_md, key_points_with_sources, response_text, json_str>>

-----------------------------------------------------------------------------
(* main.py: run_pipeline, save_outputs *)

\* save_outputs(script.to_markdown(), report.to_dict(), output_dir)
save_outputs ==
    /\ pc = "save"
    /\ raised = "none"
    /\ written' = written \cup {"podcast_script.md", "verification_report.json"}
    /\ pc' = "done"
    /\ UNCHANGED <<raised, response, calls, config, sections, plan, script, attempt,
                   claims, batch_start, batch_log, verifications, coverage, report>>
    /\ script_md' = to_markdown(script)
    /\ UNCHANGED <<key_points_with_sources, response_text, json_str>>

-----------------------------------------------------------------------------
(* generator.py, verifier.py: _extract_json; extractor.py: the copy inside   *)
(* _extract_key_points. A text is the sequence of its characters, the word   *)
(* "json" counting as one character, "tick" being the backtick, " " any     *)
(* whitespace and "x" any other character.                                   *)

Chars == {"tick", "json", "x", " "}

\* "```" and "```json"
Fence == <<"tick", "tick", "tick">>
JsonFence == <<"tick", "tick", "tick", "json">>

\* text[i:], 0-based as in Python
From(text, i) == SubSeq(text, i + 1, Len(text))

\* text.find(sep): the 0-based position of the leftmost occurrence, or -1
Find(text, sep) ==
    LET hits == {i \in 0..(Len(text) - Len(sep)) : SubSeq(text, i + 1, i + Len(sep)) = sep}
    IN  IF hits = {} THEN -1
        ELSE CHOOSE i \in hits : \A k \in hits : i <= k

\* sep in text
In(sep, text) == Find(text, sep) # -1

\* text.split(sep): the occurrences are taken left to right without overlap
RECURSIVE Split(_, _)
Split(text, sep) ==
    IF ~ In(sep, text) THEN <<text>>
    ELSE <<SubSeq(text, 1, Find(text, sep))>>
         \o Split(From(text, Find(text, sep) + Len(sep)), sep)

\* text.strip()
RECURSIVE LStrip(_)
LStrip(text) ==
    IF text # <<>> /\ Head(text) = " " THEN LStrip(Tail(text)) ELSE text

RECURSIVE RStrip(_)
RStrip(text) ==
    IF text # <<>> /\ text[Len(text)] = " "
    THEN RStrip(SubSeq(text, 1, Len(text) - 1))
    ELSE text

Strip(text) == RStrip(LStrip(text))

\* parts[1].split("```")[0] raises IndexError when parts has a single member
SecondPartRaises(parts) == Len(parts) < 2

\* text.split(sep)[1].split("```")[0]
FencedPart(text, sep) == Split(Split(text, sep)[2], Fence)[1]

\* the branch of _extract_json, of either copy, that takes a subscript
ExtractJsonRaises(text) ==
    IF In(JsonFence, text) THEN SecondPartRaises(Split(text, JsonFence))
    ELSE IF In(Fence, text) THEN SecondPartRaises(Split(text, Fence))
    ELSE FALSE

\* GeneratorAgent._extract_json(text)
GeneratorExtractJson(text) ==
    IF In(JsonFence, text) THEN Strip(FencedPart(text, JsonFence))
    ELSE IF In(Fence, text) THEN Strip(FencedPart(text, Fence))
    ELSE Strip(text)

\* VerifierAgent._extract_json(text)
VerifierExtractJson(text) ==
    IF In(JsonFence, text) THEN Strip(FencedPart(text, JsonFence))
    ELSE IF In(Fence, text) THEN Strip(FencedPart(text, Fence))
    ELSE Strip(text)

\* json_str of _extract_key_points before json.loads strips it
ExtractorJsonStr(text) ==
    IF In(JsonFence, text) THEN FencedPart(text, JsonFence)
    ELSE IF In(Fence, text) THEN FencedPart(text, Fence)
    ELSE text

\* the payload each stage hands to json.loads for the text of one response
extract_json ==
    /\ pc = "json"
    /\ json_str' =
          IF ExtractJsonRaises(response_text)
          THEN [NoPayload EXCEPT !.raised = "IndexError"]
          ELSE [generator |-> GeneratorExtractJson(response_text),
                verifier  |-> VerifierExtractJson(response_text),
                extractor |-> Strip(ExtractorJsonStr(response_text)),
                raised    |-> "none"]
    /\ pc' = "json_done"
    /\ UNCHANGED <<raised, response, calls, config, sections, plan, script, attempt, claims,
                   batch_start, batch_log, verifications, coverage, report, written,
                   script_md, key_points_with_sources, response_text>>

-----------------------------------------------------------------------------
(* Fixed inputs of the stage specifications *)

NoReport == [total_claims |-> -1]

KeyPointA == [point |-> "revenue grew", category |-> "fact", source_quote |-> Quote(1), page |-> 1]
KeyPointB == [point |-> "new markets", category |-> "strategy", source_quote |-> Quote(2), page |-> 2]

SampleConfig ==
    [title |-> "Annual Report", total_pages |-> TotalPages,
     sections |-> << [name |-> "Intro", pages |-> <<1, 2>>],
                     [name |-> "Market", pages |-> <<3>>] >>]

IntroSection ==
    [name |-> "Intro", pages |-> <<1, 2>>, raw_text |-> <<1, 2>>,
     key_points |-> <<KeyPointA, KeyPointB>>]

MarketSection ==
    [name |-> "Market", pages |-> <<3>>, raw_text |-> <<3>>, key_points |-> <<>>]

SampleSections == <<IntroSection, MarketSection>>

\* documents the Coverage Stage is run on
SampleDocuments ==
    {<<>>, <<IntroSection>>, <<MarketSection>>, SampleSections,
     <<MarketSection, IntroSection>>}

\* lengths of the two source quotes of a section, around quote_limit
QuoteLengths ==
    {<<0, 1>>, <<quote_limit - 1, quote_limit>>, <<quote_limit, quote_limit + 1>>,
     <<quote_limit + 1, 2 * quote_limit>>}

\* documents the dialogue prompt is formatted for
QuoteDocuments ==
    { << [IntroSection EXCEPT !.key_points =
              << [KeyPointA EXCEPT !.source_quote = Quote(n[1])],
                 [KeyPointB EXCEPT !.source_quote = Quote(n[2])] >>],
         MarketSection >> : n \in QuoteLengths }

SamplePlan ==
    [title |-> <<"Episode">>, opening_hook |-> "hook", segments |-> <<>>,
     friction_moment |-> "friction", takeaway |-> "takeaway"]

SampleScript ==
    [title |-> <<"Episode">>,
     dialogue |-> << [speaker |-> "Alex", text |-> ShortText, emotion_cue |-> None],
                     [speaker |-> "Jordan", text |-> AlmostText, emotion_cue |-> None] >>,
     friction_moment_summary |-> "friction", takeaway_summary |-> "takeaway"]

-----------------------------------------------------------------------------
(* Batched Verification Stage alone: _verify_claims_batched(claims, doc) for *)
(* every claim list of 0..MaxClaims claims and every backend behaviour      *)

InitVerify ==
    /\ pc = "verify"
    /\ raised = "none"
    /\ response = NoResponse
    /\ calls = <<>>
    /\ config = SampleConfig
    /\ sections = SampleSections
    /\ plan = SamplePlan
    /\ script = SampleScript
    /\ attempt = 0
    /\ claims \in {ClaimList(n) : n \in 0..MaxClaims}
    /\ batch_start = 0
    /\ batch_log = <<>>
    /\ verifications = <<>>
    /\ coverage = <<>>
    /\ report = NoReport
    /\ written = {}
    /\ script_md = <<>>
    /\ key_points_with_sources = <<>>
    /\ response_text = <<>>
    /\ json_str = NoPayload

NextVerify ==
    \/ verify_claims_batched(BatchResponses)
    \/ verify_claims_return

SpecVerify == InitVerify /\ [][NextVerify]_vars

-----------------------------------------------------------------------------
(* Dialogue Stage alone: _generate_dialogue(plan, doc) for every backend    *)
(* behaviour                                                                *)

InitDialogue ==
    /\ pc = "dialogue"
    /\ raised = "none"
    /\ response = NoResponse
    /\ calls = <<>>
    /\ config = SampleConfig
    /\ sections \in {SampleSections} \cup QuoteDocuments
    /\ plan = SamplePlan
    /\ script = EmptyScript(SamplePlan)
    /\ attempt = 0
    /\ claims = <<>>
    /\ batch_start = 0
    /\ batch_log = <<>>
    /\ verifications = <<>>
    /\ coverage = <<>>
    /\ report = NoReport
    /\ written = {}
    /\ script_md = <<>>
    /\ key_points_with_sources = <<>>
    /\ response_text = <<>>
    /\ json_str = NoPayload

NextDialogue ==
    \/ generate_dialogue(DialogueResponses)
    \/ expand_script(DialogueResponses)
    \/ generate_dialogue_return

SpecDialogue == InitDialogue /\ [][NextDialogue]_vars

-----------------------------------------------------------------------------
(* Batched Coverage Stage alone: _analyze_coverage_batched(script, doc) for *)
(* every sample document and every backend behaviour                        *)

InitCoverage ==
    /\ pc = "coverage"
    /\ raised = "none"
    /\ response = NoResponse
    /\ calls = <<>>
    /\ config = SampleConfig
    /\ sections \in SampleDocuments
    /\ plan = SamplePlan
    /\ script = SampleScript
    /\ attempt = 0
    /\ claims = <<>>
    /\ batch_start = 0
    /\ batch_log = <<>>
    /\ verifications = <<>>
    /\ coverage = <<>>
    /\ report = NoReport
    /\ written = {}
    /\ script_md = <<>>
    /\ key_points_with_sources = <<>>
    /\ response_text = <<>>
    /\ json_str = NoPayload

NextCoverage == analyze_coverage_batched(CoverageResponses)

SpecCoverage == InitCoverage /\ [][NextCoverage]_vars

-----------------------------------------------------------------------------
(* Extraction Stage alone: extract_document(config) for every backend       *)
(* behaviour                                                                *)

\* entries a backend may put in "key_points"
KeyPointEntries ==
    { KeyPointA,
      KeyPointB,
      [point |-> "market share", category |-> "market", source_quote |-> Quote(3),
       page |-> TotalPages + 1],
      [point |-> "orphan", category |-> "fact"],
      [point |-> "guess", category |-> "opinion", source_quote |-> Quote(4), page |-> 1],
      NotAnObject }

\* responses to one key-point extraction prompt
KeyPointResponses ==
    {TransportError, InvalidJson, NotObject, Object([note |-> "no list"])}
    \cup {Object([key_points |-> s]) : s \in SeqsUpTo(KeyPointEntries, MaxEntries)}

InitExtract ==
    /\ pc = "extract"
    /\ raised = "none"
    /\ response = NoResponse
    /\ calls = <<>>
    /\ config = SampleConfig
    /\ sections = <<>>
    /\ plan = DefaultPlan(SampleConfig.title)
    /\ script = EmptyScript(DefaultPlan(SampleConfig.title))
    /\ attempt = 0
    /\ claims = <<>>
    /\ batch_start = 0
    /\ batch_log = <<>>
    /\ verifications = <<>>
    /\ coverage = <<>>
    /\ report = NoReport
    /\ written = {}
    /\ script_md = <<>>
    /\ key_points_with_sources = <<>>
    /\ response_text = <<>>
    /\ json_str = NoPayload

NextExtract ==
    \/ extract_section(KeyPointResponses)
    \/ extract_document_return

SpecExtract == InitExtract /\ [][NextExtract]_vars

-----------------------------------------------------------------------------
(* The report: verify_script from the Coverage Stage on, for every list of  *)
(* 0..MaxVerifications verifications the Batched Verification Stage can     *)
(* return and every backend behaviour of the coverage call                  *)

\* the verifications of n claims whose statuses are st[1], ..., st[n]
VerificationsWith(st) ==
    [k \in 1..Len(st) |-> MakeVerification(ClaimList(Len(st))[k], [status |-> st[k]])]

InitReport ==
    /\ pc = "coverage"
    /\ raised = "none"
    /\ response = NoResponse
    /\ config = SampleConfig
    /\ sections = SampleSections
    /\ plan = SamplePlan
    /\ script = SampleScript
    /\ attempt = 0
    /\ \E st \in SeqsUpTo(ClaimStatus, MaxVerifications) :
          /\ claims = ClaimList(Len(st))
          /\ verifications = VerificationsWith(st)
          /\ calls = IF st = <<>> THEN <<>> ELSE <<"verify">>
          /\ batch_start = IF st = <<>> THEN 0 ELSE NextBatchStart(0)
          /\ batch_log = IF st = <<>> THEN <<>>
                         ELSE <<BatchRecord(0, ClaimList(Len(st)), "parsed")>>
    /\ coverage = <<>>
    /\ report = NoReport
    /\ written = {}
    /\ script_md = <<>>
    /\ key_points_with_sources = <<>>
    /\ response_text = <<>>
    /\ json_str = NoPayload

NextReport ==
    \/ analyze_coverage_batched(CoverageResponses)
    \/ aggregate
    \/ save_outputs

SpecReport == InitReport /\ [][NextReport]_vars

-----------------------------------------------------------------------------
(* The whole run: run_pipeline from the loaded configuration to the saved   *)
(* outputs.  Every stage answers with one response of each shape: the call  *)
(* raises, the payload is no JSON, the payload is no object, the payload    *)
(* is well formed, a key is missing, a value is outside its Literal.        *)

PipelineKeyPointResponses ==
    {TransportError, InvalidJson,
     Object([key_points |-> <<KeyPointA, KeyPointB>>]),
     Object([key_points |-> <<[point |-> "orphan", category |-> "fact"]>>]),
     Object([key_points |-> <<[point |-> "guess", category |-> "opinion",
                               source_quote |-> Quote(3), page |-> 1]>>])}

PipelinePlanResponses ==
    {TransportError, InvalidJson, NotObject,
     Object([title |-> <<"The Numbers">>, opening_hook |-> "hook",
             segments |-> <<[title |-> "Growth", key_points_to_cover |-> <<"revenue grew">>,
                             approach |-> "debate"]>>,
             friction_moment |-> "friction", takeaway |-> "takeaway"]),
     Object([title |-> <<"The Numbers">>, opening_hook |-> "hook",
             friction_moment |-> "friction"])}

PipelineDialogueResponses ==
    {TransportError, InvalidJson,
     Object([dialogue |-> <<[speaker |-> "Alex", text |-> ShortText]>>]),
     Object([dialogue |-> <<[speaker |-> "Alex", text |-> ShortText, emotion_cue |-> "[laughs]"],
                            [speaker |-> "Jordan", text |-> AlmostText]>>]),
     Object([dialogue |-> <<[speaker |-> "Bob", text |-> ShortText]>>])}

PipelineClaimsResponses ==
    {TransportError, InvalidJson, NotObject,
     Object([claims |-> <<[claim |-> ClaimText(1)]>>])}
    \cup {Object([claims |-> ClaimEntries(n)]) : n \in {0, 1, BATCH_SIZE + 1}}

PipelineBatchResponses ==
    {TransportError, InvalidJson,
     Object([verifications |->
               <<[claim_id |-> 0, status |-> "SUPPORTED", explanation |-> "stated on the page",
                  source_page |-> "p3", source_quote |-> "quote"]>>]),
     Object([verifications |->
               <<[claim_id |-> 1, status |-> "PARTIALLY_SUPPORTED",
                  explanation |-> "numbers differ"],
                 [claim_id |-> 0, source_page |-> "p4"]>>]),
     Object([verifications |->
               <<[claim_id |-> 0, status |-> "MAYBE", explanation |-> "unsure"]>>])}

PipelineCoverageResponses ==
    {TransportError, InvalidJson, NotObject,
     Object([coverage |->
               <<[section |-> "Intro", status |-> "FULL", key_points_total |-> 2,
                  key_points_covered |-> 2, covered |-> <<"revenue grew", "new markets">>,
                  omitted |-> <<>>]>>]),
     Object([coverage |-> <<[section |-> "Market", status |-> "MOSTLY"]>>])}

\* the configurations the run is started on: the sample, and the sample with
\* every page of its second section outside the document
OutOfRangeConfig == [SampleConfig EXCEPT !.sections[2].pages = <<0, TotalPages + 1>>]

PipelineConfigs == {SampleConfig, OutOfRangeConfig}

Init ==
    /\ pc = "extract"
    /\ raised = "none"
    /\ response = NoResponse
    /\ calls = <<>>
    /\ config \in PipelineConfigs
    /\ sections = <<>>
    /\ plan = DefaultPlan(SampleConfig.title)
    /\ script = EmptyScript(DefaultPlan(SampleConfig.title))
    /\ attempt = 0
    /\ claims = <<>>
    /\ batch_start = 0
    /\ batch_log = <<>>
    /\ verifications = <<>>
    /\ coverage = <<>>
    /\ report = NoReport
    /\ written = {}
    /\ script_md = <<>>
    /\ key_points_with_sources = <<>>
    /\ response_text = <<>>
    /\ json_str = NoPayload

Next ==
    \/ extract_section(PipelineKeyPointResponses)
    \/ extract_document_return
    \/ create_plan(PipelinePlanResponses)
    \/ generate_dialogue(PipelineDialogueResponses)
    \/ expand_script(PipelineDialogueResponses)
    \/ generate_dialogue_return
    \/ extract_claims(PipelineClaimsResponses)
    \/ verify_claims_batched(PipelineBatchResponses)
    \/ verify_claims_return
    \/ analyze_coverage_batched(PipelineCoverageResponses)
    \/ aggregate
    \/ save_outputs

Spec == Init /\ [][Next]_vars

-----------------------------------------------------------------------------
(* Extraction Stage over configured page lists: extract_document(config)    *)
(* where the first section is configured with every list of 0..MaxPages     *)
(* pages out of 0..TotalPages + 1                                           *)

PageConfigs ==
    {[SampleConfig EXCEPT !.sections[1].pages = ps] :
        ps \in SeqsUpTo(0..(TotalPages + 1), MaxPages)}

InitPages ==
    /\ pc = "extract"
    /\ raised = "none"
    /\ response = NoResponse
    /\ calls = <<>>
    /\ config \in PageConfigs
    /\ sections = <<>>
    /\ plan = DefaultPlan(SampleConfig.title)
    /\ script = EmptyScript(DefaultPlan(SampleConfig.title))
    /\ attempt = 0
    /\ claims = <<>>
    /\ batch_start = 0
    /\ batch_log = <<>>
    /\ verifications = <<>>
    /\ coverage = <<>>
    /\ report = NoReport
    /\ written = {}
    /\ script_md = <<>>
    /\ key_points_with_sources = <<>>
    /\ response_text = <<>>
    /\ json_str = NoPayload

NextPages ==
    \/ extract_section(PipelineKeyPointResponses)
    \/ extract_document_return

SpecPages == InitPages /\ [][NextPages]_vars

-----------------------------------------------------------------------------
(* The structured-response parser alone: every text of up to MaxChars       *)
(* characters                                                                *)

InitExtractJson ==
    /\ pc = "json"
    /\ raised = "none"
    /\ response = NoResponse
    /\ calls = <<>>
    /\ config = SampleConfig
    /\ sections = <<>>
    /\ plan = DefaultPlan(SampleConfig.title)
    /\ script = EmptyScript(DefaultPlan(SampleConfig.title))
    /\ attempt = 0
    /\ claims = <<>>
    /\ batch_start = 0
    /\ batch_log = <<>>
    /\ verifications = <<>>
    /\ coverage = <<>>
    /\ report = NoReport
    /\ written = {}
    /\ script_md = <<>>
    /\ key_points_with_sources = <<>>
    /\ response_text \in SeqsUpTo(Chars, MaxChars)
    /\ json_str = NoPayload

NextExtractJson == extract_json

SpecExtractJson == InitExtractJson /\ [][NextExtractJson]_vars

-----------------------------------------------------------------------------
(* Planning Stage alone, up to the first call of the Dialogue Stage:        *)
(* generate_script(doc) for two document titles and every backend behaviour *)
(* of the planning call                                                     *)

\* entries a backend may put in "segments"
SegmentEntries ==
    { [title |-> "Growth", key_points_to_cover |-> <<"revenue grew">>, approach |-> "debate"],
      [title |-> "Outlook", key_points_to_cover |-> <<>>],
      NotAnObject }

\* the decoded objects a planning response may hold: complete, without its
\* takeaway, without its title, without its segments
PlanPayloads ==
    UNION { { [title |-> <<"The Numbers">>, opening_hook |-> "hook", segments |-> segs,
               friction_moment |-> "friction", takeaway |-> "takeaway"],
              [title |-> <<"The Numbers">>, opening_hook |-> "hook", segments |-> segs,
               friction_moment |-> "friction"],
              [opening_hook |-> "hook", segments |-> segs,
               friction_moment |-> "friction", takeaway |-> "takeaway"] }
            : segs \in SeqsUpTo(SegmentEntries, MaxEntries) }
    \cup { [title |-> <<"The Numbers">>, opening_hook |-> "hook",
            friction_moment |-> "friction", takeaway |-> "takeaway"] }

\* responses to the planning prompt
PlanResponses ==
    {TransportError, InvalidJson, NotObject} \cup {Object(d) : d \in PlanPayloads}

\* the documents the Planning Stage is run on
PlanConfigs == {SampleConfig, [SampleConfig EXCEPT !.title = "Quarterly Update"]}

InitPlan ==
    /\ pc = "plan"
    /\ raised = "none"
    /\ response = NoResponse
    /\ calls = <<>>
    /\ config \in PlanConfigs
    /\ sections = SampleSections
    /\ plan = DefaultPlan(config.title)
    /\ script = EmptyScript(DefaultPlan(config.title))
    /\ attempt = 0
    /\ claims = <<>>
    /\ batch_start = 0
    /\ batch_log = <<>>
    /\ verifications = <<>>
    /\ coverage = <<>>
    /\ report = NoReport
    /\ written = {}
    /\ script_md = <<>>
    /\ key_points_with_sources = <<>>
    /\ response_text = <<>>
    /\ json_str = NoPayload

NextPlan ==
    \/ create_plan(PlanResponses)
    \/ generate_dialogue(PipelineDialogueResponses)

SpecPlan == InitPlan /\ [][NextPlan]_vars

-----------------------------------------------------------------------------
(* Properties *)

Last(seq) == seq[Len(seq)]

\* the port calls a stage has issued
CallsOf(stage) == Cardinality({k \in 1..Len(calls) : calls[k] = stage})

\* _verify_claims_batched has returned its list
VerifyReturned == pc \in {"coverage", "aggregate", "save", "done"}

\* the least m with m * BATCH_SIZE >= n
CeilBatches(n) ==
    CHOOSE m \in 0..n : m * BATCH_SIZE >= n /\ (m = 0 \/ (m - 1) * BATCH_SIZE < n)

\* C1: whenever _verify_claims_batched returns, it returns exactly one
\* ClaimVerification per input claim, whatever the number of claims (none,
\* less than a batch, a multiple of BATCH_SIZE or not) and the responses.
C1_NoClaimDropped ==
    VerifyReturned => Len(verifications) = Len(claims)

\* a run of two batches, one parsed and one failed, has returned
C1_Witness ==
    /\ VerifyReturned
    /\ Len(claims) = BATCH_SIZE + 1
    /\ Len(verifications) = BATCH_SIZE + 1
    /\ {batch_log[j].outcome : j \in DOMAIN batch_log} = {"parsed", "failed"}

\* the step is an expansion attempt whose response failed to parse (the
\* decode error or the missing key is caught inside _parse_dialogue_json)
FailedExpansionStep ==
    /\ pc = "expand"
    /\ CallsOf("expand")' = CallsOf("expand") + 1
    /\ raised' = "none"
    /\ DialogueCaught(DialogueError(response'))

\* C2: an expansion attempt whose response fails to parse leaves the Dialogue
\* Stage holding the script it held before the attempt (the same dialogue
\* lines); a non-empty script is never replaced by an empty one.
C2_FailedExpansionKeepsScript ==
    [][FailedExpansionStep => script'.dialogue = script.dialogue]_vars

\* C3: whatever the backend answers, the Dialogue Stage makes one generation
\* call and at most max_expansion_attempts expansion calls; as long as no call
\* has raised it can always go on, and after the second expansion the only
\* step left is the return of the script it holds, below min_words or not.
C3_BoundedExpansion ==
    /\ CallsOf("dialogue") <= 1
    /\ CallsOf("expand") <= max_expansion_attempts
    /\ raised = "none" => CallsOf("expand") = attempt
    /\ (pc = "expand" /\ raised = "none") =>
          /\ ENABLED expand_script(DialogueResponses) \/ ENABLED generate_dialogue_return
          /\ CallsOf("expand") = max_expansion_attempts =>
                /\ ~ ENABLED expand_script(DialogueResponses)
                /\ ENABLED generate_dialogue_return

\* the stage returned after two expansions with a script still below min_words
C3_Witness ==
    /\ pc = "claims"
    /\ CallsOf("expand") = max_expansion_attempts
    /\ script.dialogue # <<>>
    /\ word_count(script) < min_words

\* C4: when no port call raises, no decoding or validation exception leaves
\* the run, whatever malformed payloads the stages receive.
C4_MalformedPayloadsNeverEscape ==
    raised \in {"none", "APIError"}

\* the response list of a batch response, empty when the key is absent
VerificationsOf(r) ==
    IF r.kind = "object" THEN Get(r.data, "verifications", <<>>) ELSE <<>>

\* the response entries carrying claim_id i, by position
EntriesFor(r, i) ==
    {j \in 1..Len(VerificationsOf(r)) :
        /\ IsObject(VerificationsOf(r)[j])
        /\ Has(VerificationsOf(r)[j], "claim_id")
        /\ VerificationsOf(r)[j].claim_id = i}

\* the record holds the entry's content: every field the entry has
Carries(ver, e) ==
    \A f \in {"status", "explanation", "source_page", "source_quote"} :
        Has(e, f) => ver[f] = e[f]

\* the record is one the stage made up itself
IsStageDefault(ver) ==
    /\ ver.status = "NOT_FOUND"
    /\ ver.explanation \in {"No verification returned", "Batch verification failed"}
    /\ ver.source_page = None
    /\ ver.source_quote = None

\* C5: the verification list is in claim order across batches: the k-th
\* record carries the claim text and script_context of the k-th claim; a
\* batch step leaves the records of earlier batches as they were, and a new
\* record at global position b + i (b the batch offset) holds either a stage
\* default or the content of a response entry whose claim_id is i.
C5_OrderPreserved ==
    [][ /\ Len(verifications') <= Len(claims')
        /\ \A k \in 1..Len(verifications') :
              /\ verifications'[k].claim = claims'[k].claim
              /\ verifications'[k].script_context = claims'[k].script_context
        /\ Len(verifications) <= Len(verifications')
        /\ \A k \in 1..Len(verifications) : verifications'[k] = verifications[k]
        /\ \A k \in (Len(verifications) + 1)..Len(verifications') :
              \/ IsStageDefault(verifications'[k])
              \/ \E j \in EntriesFor(response', k - 1 - batch_start) :
                    Carries(verifications'[k], VerificationsOf(response')[j])
      ]_vars

\* the second batch took the content of its own entry 0 at global position
\* BATCH_SIZE, while the first batch's record for its claim 0 is a default
C5_Witness ==
    /\ VerifyReturned
    /\ Len(verifications) = BATCH_SIZE + 2
    /\ verifications[BATCH_SIZE + 1].status = "SUPPORTED"
    /\ verifications[BATCH_SIZE + 1].claim = ClaimText(BATCH_SIZE + 1)
    /\ verifications[1].explanation = "No verification returned"
    /\ verifications[1].claim = ClaimText(1)

\* C6: n claims are verified in exactly ceil(n / BATCH_SIZE) batch calls, every
\* batch holding BATCH_SIZE claims except the last, which holds the rest
\* (BATCH_SIZE claims: one call; BATCH_SIZE + 1: sizes BATCH_SIZE and 1; none:
\* no call).
C6_BatchCalls ==
    VerifyReturned =>
        LET n == Len(claims)
            m == CeilBatches(n)
        IN  /\ CallsOf("verify") = m
            /\ Len(batch_log) = m
            /\ \A j \in 1..m :
                  /\ batch_log[j].start = (j - 1) * BATCH_SIZE
                  /\ batch_log[j].size =
                        IF j < m THEN BATCH_SIZE ELSE n - (m - 1) * BATCH_SIZE
            /\ n = 0 => CallsOf("verify") = 0
            /\ n = BATCH_SIZE => CallsOf("verify") = 1
            /\ n = BATCH_SIZE + 1 =>
                  <<batch_log[1].size, batch_log[2].size>> = <<BATCH_SIZE, 1>>

\* BATCH_SIZE + 1 claims were verified in two calls
C6_Witness ==
    /\ VerifyReturned
    /\ Len(claims) = BATCH_SIZE + 1
    /\ CallsOf("verify") = 2
    /\ batch_log[2].size = 1

\* the last batch was decoded and its response is still the last one
LastBatchParsed ==
    /\ pc \in {"verify", "coverage"}
    /\ raised = "none"
    /\ batch_log # <<>>
    /\ Last(batch_log).outcome = "parsed"

\* C7: in a batch whose response parses, the claim at local index i takes the
\* status, explanation, source_page and source_quote that the first response
\* entry with claim_id i supplies (later duplicates and ids outside the batch
\* are ignored); with no such entry it is NOT_FOUND, "No verification
\* returned".
C7_FirstMatchOrDefault ==
    LastBatchParsed =>
        /\ Len(verifications) = Last(batch_log).start + Last(batch_log).size
        /\ \A i \in 0..(Last(batch_log).size - 1) :
              LET ver == verifications[Last(batch_log).start + i + 1]
                  hits == EntriesFor(response, i)
              IN  IF hits = {}
                  THEN /\ ver.status = "NOT_FOUND"
                       /\ ver.explanation = "No verification returned"
                  ELSE Carries(ver, VerificationsOf(response)
                                      [CHOOSE j \in hits : \A k \in hits : j <= k])

\* two entries with claim_id 0 were returned, the first one was used, and the
\* claim at local index 1 had no entry
C7_Witness ==
    /\ LastBatchParsed
    /\ Last(batch_log).size >= 2
    /\ Cardinality(EntriesFor(response, 0)) = 2
    /\ VerificationsOf(response)[1].status = "PARTIALLY_SUPPORTED"
    /\ verifications[Last(batch_log).start + 1].status = "PARTIALLY_SUPPORTED"
    /\ verifications[Last(batch_log).start + 2].explanation = "No verification returned"

\* C8: when the response for a batch cannot be parsed, every claim of that
\* batch, and of no other, is recorded exactly once as NOT_FOUND with the note
\* "Batch verification failed", its own claim text and script_context; the
\* records of the other batches are unaffected.
C8_FailedBatch ==
    /\ Len(verifications) <= Len(claims)
    /\ \A j \in 1..Len(batch_log) :
          /\ batch_log[j].start + batch_log[j].size <= Len(verifications)
          /\ j < Len(batch_log) =>
                batch_log[j + 1].start = batch_log[j].start + batch_log[j].size
          /\ \A k \in (batch_log[j].start + 1)..(batch_log[j].start + batch_log[j].size) :
                (batch_log[j].outcome = "failed")
                  <=> (verifications[k] =
                         [claim |-> claims[k].claim,
                          script_context |-> claims[k].script_context,
                          source_page |-> None,
                          source_quote |-> None,
                          status |-> "NOT_FOUND",
                          explanation |-> "Batch verification failed"])
    /\ batch_log # <<>> =>
          /\ batch_log[1].start = 0
          /\ Len(verifications) = Last(batch_log).start + Last(batch_log).size

\* a parsed first batch kept its records and a failed second batch followed
C8_Witness ==
    /\ VerifyReturned
    /\ Len(batch_log) = 2
    /\ batch_log[1].outcome = "parsed"
    /\ batch_log[2].outcome = "failed"
    /\ batch_log[2].size = 2
    /\ verifications[1].status = "SUPPORTED"
    /\ verifications[BATCH_SIZE + 2].explanation = "Batch verification failed"

\* the port answered the coverage prompt with text that is no JSON, or with
\* a JSON object (well formed, malformed in its entries, or omitting sections)
CoverageAnswered ==
    /\ CallsOf("coverage") = 1
    /\ response.kind \in {"invalid_json", "object"}
    /\ pc \in {"coverage", "aggregate"}

\* _analyze_coverage_batched has returned its list
CoverageReturned == pc \in {"aggregate", "save", "done"}

\* C9: the Coverage Stage returns exactly one CoverageItem per section of the
\* document, in the order of the sections and named after them, whether the
\* response is valid, unparseable, malformed in its fields or omits sections.
C9_OneItemPerSection ==
    CoverageAnswered =>
        /\ CoverageReturned
        /\ Len(coverage) = Len(sections)
        /\ \A j \in 1..Len(sections) : coverage[j].section = sections[j].name

\* the response entries naming exactly this section
CoverageEntriesFor(r, name) ==
    LET cs == IF r.kind = "object" THEN Get(r.data, "coverage", <<>>) ELSE <<>>
    IN  {j \in 1..Len(cs) : IsObject(cs[j]) /\ Has(cs[j], "section") /\ cs[j].section = name}

\* C10: when the coverage response has no entry whose section name equals a
\* section's name exactly, or fails to parse, the item for that section is
\* PARTIAL with key_points_covered 0, nothing covered, key_points_total the
\* number of the section's key points and omitted all their texts in order;
\* the stage never guesses FULL or OMITTED.
C10_SafeDefault ==
    (pc = "aggregate" /\ CallsOf("coverage") = 1) =>
        /\ Len(coverage) = Len(sections)
        /\ \A j \in 1..Len(sections) :
              (response.kind = "invalid_json"
                 \/ CoverageEntriesFor(response, sections[j].name) = {}) =>
                  /\ coverage[j].status = "PARTIAL"
                  /\ coverage[j].key_points_covered = 0
                  /\ coverage[j].covered = <<>>
                  /\ coverage[j].key_points_total = Len(sections[j].key_points)
                  /\ Len(coverage[j].omitted) = Len(sections[j].key_points)
                  /\ \A i \in 1..Len(sections[j].key_points) :
                        coverage[j].omitted[i] = sections[j].key_points[i].point

\* the response named the section "intro" and claimed FULL; the item for
\* "Intro" is the default listing both key points as omitted
C10_Witness ==
    /\ pc = "aggregate"
    /\ response.kind = "object"
    /\ CoverageEntriesFor(response, "intro") # {}
    /\ CoverageEntriesFor(response, "Intro") = {}
    /\ \E j \in 1..Len(sections) :
          /\ sections[j].name = "Intro"
          /\ coverage[j].status = "PARTIAL"
          /\ coverage[j].omitted = <<"revenue grew", "new markets">>


\* verify_script has built its VerificationReport
Reported == report # NoReport

\* C11: overall_coverage_percentage is sum(key_points_covered) /
\* sum(key_points_total) * 100 over the CoverageItems of the report, exactly 0
\* when the total is 0, and within [0, 100] whatever counts the backend
\* reported.
C11_CoveragePercentage ==
    Reported =>
        LET total == SumField(report.coverage_analysis, "key_points_total")
            covered == SumField(report.coverage_analysis, "key_points_covered")
            pct == report.overall_coverage_percentage
        IN  /\ pct.den > 0
            /\ total = 0 => pct.num = 0
            /\ total > 0 => pct.num * total = covered * 100 * pct.den
            /\ 0 <= pct.num
            /\ pct.num <= 100 * pct.den

\* the statuses of the verifications the report lists
StatusCount(st) ==
    Cardinality({k \in 1..Len(report.claim_verifications) :
                    report.claim_verifications[k].status = st})

\* C12: support_rate is (supported + 0.5 * partially_supported) /
\* total_claims * 100, exactly 0 when there are no claims, and within
\* [0, 100] for every list of verifications.
C12_SupportRate ==
    Reported =>
        LET rate == report.support_rate
        IN  /\ rate.den > 0
            /\ report.total_claims = 0 => rate.num = 0
            /\ report.total_claims > 0 =>
                  rate.num * report.total_claims =
                     (2 * StatusCount("SUPPORTED") + StatusCount("PARTIALLY_SUPPORTED"))
                        * 50 * rate.den
            /\ 0 <= rate.num
            /\ rate.num <= 100 * rate.den

\* a report on one supported, one partially supported and one unfound claim:
\* the rate is 50 per cent
C12_Witness ==
    /\ Reported
    /\ report.total_claims = 3
    /\ StatusCount("SUPPORTED") = 1
    /\ StatusCount("PARTIALLY_SUPPORTED") = 1
    /\ report.support_rate.num = 50 * report.support_rate.den

\* the positions of the NOT_FOUND verifications of the report
NotFoundAt ==
    {k \in 1..Len(report.claim_verifications) :
        report.claim_verifications[k].status = "NOT_FOUND"}

\* C13: hallucination_flags is exactly the subsequence of claim_verifications
\* with status NOT_FOUND, in the same relative order: its j-th entry is the
\* j-th NOT_FOUND verification, and it has no other entry.
C13_HallucinationFlags ==
    Reported =>
        /\ Len(report.hallucination_flags) = Cardinality(NotFoundAt)
        /\ \A k \in NotFoundAt :
              report.hallucination_flags[Cardinality({i \in NotFoundAt : i <= k})]
                 = report.claim_verifications[k]

\* two unfound claims around a supported one: both flagged, in order
C13_Witness ==
    /\ Reported
    /\ Len(report.claim_verifications) = 3
    /\ NotFoundAt = {1, 3}
    /\ report.hallucination_flags =
          <<report.claim_verifications[1], report.claim_verifications[3]>>


\* C14: when a port call raises, at whatever stage, the exception leaves the
\* run: no later stage starts (no step follows), no report is built, and
\* neither the script file nor the report file is written.
C14_PortFailureAborts ==
    /\ response.kind = "transport_error" => raised = "APIError"
    /\ raised = "APIError" =>
          /\ response.kind = "transport_error"
          /\ report = NoReport
          /\ written = {}
          /\ script_md = <<>>
          /\ ~ ENABLED Next

\* the call for the second verification batch raised after the first batch
\* had been verified
C14_Witness ==
    /\ raised = "APIError"
    /\ Last(calls) = "verify"
    /\ Len(verifications) = BATCH_SIZE
    /\ written = {}


\* the place of a stage's port calls in the run
StageRank(stage) ==
    CASE stage = "extract" -> 1
      [] stage = "plan" -> 2
      [] stage = "dialogue" -> 3
      [] stage = "expand" -> 4
      [] stage = "claims" -> 5
      [] stage = "verify" -> 6
      [] stage = "coverage" -> 7

\* a stage of this rank or a later one has issued a call
Started(rank) == \E k \in 1..Len(calls) : StageRank(calls[k]) >= rank

\* C15: the stages run in the order Extraction, Planning, Dialogue (with its
\* expansions), Claim Extraction, Batched Verification, Batched Coverage,
\* Aggregation; a stage issues its first call only when its predecessor has
\* returned its complete output, which no later step changes: all sections
\* are extracted before planning, the script is final before claim
\* extraction, all batches are verified before coverage.
C15_StageOrder ==
    [][ /\ \A i, j \in 1..Len(calls') :
              i < j => StageRank(calls'[i]) <= StageRank(calls'[j])
        /\ \A st \in {"plan", "dialogue", "claims", "coverage"} : CallsOf(st)' <= 1
        /\ Started(2)' => /\ Len(sections') = Len(config.sections)
                          /\ CallsOf("extract")' = Len(config.sections)
        /\ Started(3)' => CallsOf("plan")' = 1
        /\ Started(5)' => CallsOf("dialogue")' = 1
        /\ Started(6)' => CallsOf("claims")' = 1
        /\ Started(7)' => /\ Len(verifications') = Len(claims')
                          /\ CallsOf("verify")' = CeilBatches(Len(claims'))
        /\ Reported' => CallsOf("coverage")' = 1
        /\ Started(2) => sections' = sections
        /\ Started(3) => plan' = plan
        /\ Started(5) => script' = script
        /\ Started(6) => claims' = claims
        /\ Started(7) => verifications' = verifications
        /\ Reported => coverage' = coverage /\ report' = report
      ]_vars

\* a run that went through every stage: two extractions, a plan, a dialogue
\* with an expansion, claims in two batches, coverage and the report
C15_Witness ==
    /\ Reported
    /\ CallsOf("extract") = 2
    /\ CallsOf("expand") >= 1
    /\ CallsOf("verify") = 2
    /\ Last(calls) = "coverage"


\* the last port call was an extraction whose response cannot be decoded:
\* it is no JSON, or building a key point hit a missing required key
UndecodableExtraction ==
    /\ calls # <<>>
    /\ Last(calls) = "extract"
    /\ \/ response.kind = "invalid_json"
       \/ KeyPointsError(response) = "KeyError"

\* C16: when the extraction response for a section cannot be decoded (no
\* JSON, or a key point lacking a required key), that section is kept with
\* an empty key_points list and the run goes on to the remaining sections;
\* the document returned has one SectionContent per configured section, in
\* the configured order.
C16_UndecodableSectionIsEmpty ==
    /\ UndecodableExtraction =>
          /\ raised = "none"
          /\ Len(sections) = CallsOf("extract")
          /\ Last(sections).key_points = <<>>
    /\ pc # "extract" =>
          /\ Len(sections) = Len(config.sections)
          /\ \A j \in 1..Len(sections) :
                /\ sections[j].name = config.sections[j].name
                /\ sections[j].pages = config.sections[j].pages

\* C20: in the document the Extraction Stage builds, the page of every
\* KeyPoint is one of the pages configured for its section, whatever page
\* the backend returned.
C20_KeyPointPageInSection ==
    \A j \in 1..Len(sections) :
        \A i \in 1..Len(sections[j].key_points) :
            \E n \in 1..Len(sections[j].pages) :
                sections[j].key_points[i].page = sections[j].pages[n]


\* the step is the claim-extraction call, answered with a malformed payload:
\* no JSON, or a claim entry lacking a required key
MalformedClaimsStep ==
    /\ pc = "claims"
    /\ calls' = Append(calls, "claims")
    /\ \/ response'.kind = "invalid_json"
       \/ ClaimsError(response') = "KeyError"

\* the Claim Extraction Stage has returned an empty claim list
NoClaimsFound ==
    /\ CallsOf("claims") = 1
    /\ pc # "claims"
    /\ claims = <<>>

\* C17: a malformed claim-extraction response (no JSON, or a claim entry
\* lacking a required key) makes the stage return an empty claim list without
\* raising; the run then issues no verification batch call, goes on to the
\* coverage call, and its report has total_claims 0, support_rate 0 and empty
\* claim_verifications and hallucination_flags.
C17_MalformedClaimsGiveEmptyReport ==
    [][ /\ MalformedClaimsStep =>
              /\ raised' = "none"
              /\ claims' = <<>>
              /\ pc' = "verify"
        /\ NoClaimsFound =>
              /\ CallsOf("verify")' = 0
              /\ verifications' = <<>>
              /\ (pc = "verify" /\ raised = "none") => pc' = "coverage"
              /\ (pc = "coverage" /\ raised = "none") => Last(calls') = "coverage"
              /\ Reported' =>
                    /\ CallsOf("coverage")' = 1
                    /\ report'.total_claims = 0
                    /\ report'.support_rate.num = 0
                    /\ report'.claim_verifications = <<>>
                    /\ report'.hallucination_flags = <<>>
      ]_vars

\* a claim entry lacked its script_context: the stage returned no claims and
\* the run stands before the batch loop
C17_Witness ==
    /\ pc = "verify"
    /\ raised = "none"
    /\ Last(calls) = "claims"
    /\ ClaimsError(response) = "KeyError"
    /\ claims = <<>>


\* the step is the planning call, answered with a payload that fails to
\* parse or lacks a required key
FailedPlanStep ==
    /\ pc = "plan"
    /\ calls' = Append(calls, "plan")
    /\ \/ response'.kind = "invalid_json"
       \/ PlanError(response') = "KeyError"

\* the step is the first call of the Dialogue Stage
DialogueStartStep ==
    /\ pc = "dialogue"
    /\ calls' = Append(calls, "dialogue")

\* C18: when the planning response fails to parse or lacks a required key,
\* the Planning Stage returns the fixed fallback plan of the document title:
\* title "Deep Dive: <document title>", the generic hook, no segments, the
\* generic friction moment and takeaway; the Dialogue Stage always starts
\* from a complete plan.
C18_FallbackPlan ==
    [][ /\ FailedPlanStep =>
              /\ raised' = "none"
              /\ pc' = "dialogue"
              /\ plan'.title = <<"Deep Dive: ", config.title>>
              /\ plan'.opening_hook = "Let's explore what this document reveals..."
              /\ plan'.segments = <<>>
              /\ plan'.friction_moment = "Hosts discuss implications"
              /\ plan'.takeaway = "Key insights from the document"
        /\ DialogueStartStep =>
              /\ CallsOf("plan") = 1
              /\ DOMAIN plan = {"title", "opening_hook", "segments", "friction_moment",
                                "takeaway"}
      ]_vars

\* the plan of "Quarterly Update" lacked a key: the Dialogue Stage was called
\* with the fallback plan of that title
C18_Witness ==
    /\ CallsOf("plan") = 1
    /\ CallsOf("dialogue") = 1
    /\ config.title = "Quarterly Update"
    /\ plan = [title |-> <<"Deep Dive: ", "Quarterly Update">>,
               opening_hook |-> "Let's explore what this document reveals...",
               segments |-> <<>>,
               friction_moment |-> "Hosts discuss implications",
               takeaway |-> "Key insights from the document"]


\* C19: every ExtractedClaim the Claim Extraction Stage returns has a
\* line_index that is a valid index into the dialogue of the script it was
\* extracted from, 0 <= line_index < number of dialogue lines, whether the
\* backend omitted line_index or returned any integer, and also when the
\* script has no dialogue lines.
C19_LineIndexValid ==
    \A k \in 1..Len(claims) :
        /\ 0 <= claims[k].line_index
        /\ claims[k].line_index < Len(script.dialogue)


\* the last batch is finished and its response is still the last one
LastBatchDone ==
    /\ pc \in {"verify", "coverage"}
    /\ raised = "none"
    /\ batch_log # <<>>

\* the status of the record at local index i of the last batch was supplied
\* by the stage: the batch failed to parse, no response entry has claim_id i,
\* or the first such entry has no status field
StageSuppliedStatus(i) ==
    \/ Last(batch_log).outcome = "failed"
    \/ EntriesFor(response, i) = {}
    \/ ~ Has(VerificationsOf(response)
               [CHOOSE j \in EntriesFor(response, i) :
                   \A k \in EntriesFor(response, i) : j <= k], "status")

\* C21: every ClaimVerification whose status was supplied by the stage and
\* not by the backend (claim index absent from the response, whole-batch
\* parse failure, matching entry without a status field) carries a non-empty
\* explanation that marks the record as fallback data.
C21_FallbackExplained ==
    LastBatchDone =>
        \A i \in 0..(Last(batch_log).size - 1) :
            StageSuppliedStatus(i) =>
                LET ver == verifications[Last(batch_log).start + i + 1]
                IN  /\ ver.explanation # ""
                    /\ ver.explanation \in {"No verification returned",
                                            "Batch verification failed"}


\* the dialogue lines of the last response, empty when it holds none
DialogueOf(r) ==
    IF r.kind = "object" THEN Get(r.data, "dialogue", <<>>) ELSE <<>>

\* C22: every DialogueLine of every script the Dialogue Stage holds or
\* returns, after the initial generation or after any expansion, has speaker
\* Alex or Jordan; a response line with another speaker is rejected when the
\* response is parsed and never enters a script.
C22_TwoSpeakers ==
    /\ \A k \in 1..Len(script.dialogue) : script.dialogue[k].speaker \in {"Alex", "Jordan"}
    /\ (\E k \in 1..Len(DialogueOf(response)) :
            /\ IsObject(DialogueOf(response)[k])
            /\ Has(DialogueOf(response)[k], "speaker")
            /\ DialogueOf(response)[k].speaker \notin {"Alex", "Jordan"})
          => \/ raised # "none"
             \/ script.dialogue = <<>>

\* an expansion answered with a line spoken by Bob after a line by Alex: the
\* response was rejected and the script holds no line of Bob
C22_Witness ==
    /\ CallsOf("expand") = 1
    /\ Len(DialogueOf(response)) = 2
    /\ \A k \in 1..2 : Has(DialogueOf(response)[k], "speaker")
    /\ DialogueOf(response)[1].speaker = "Alex"
    /\ DialogueOf(response)[2].speaker = "Bob"
    /\ raised = "ValidationError"
    /\ script.dialogue # <<>>


\* C23: the script_word_count of the VerificationReport is the sum of the
\* whitespace-delimited tokens over the dialogue texts of the final script,
\* the one that is saved: it is recomputed from the dialogue, not carried
\* over from an earlier script nor taken from the target, also when the
\* final script is below min_words.
C23_ReportedWordCount ==
    Reported =>
        /\ report.script_word_count = SumWords(script.dialogue)
        /\ report.script_title = script.title

\* after two expansions the script is still one word long, and the report
\* says so
C23_Witness ==
    /\ Reported
    /\ CallsOf("expand") = max_expansion_attempts
    /\ Len(script.dialogue) = 1
    /\ report.script_word_count = 1


\* the current script is short and expansion attempts are left
ExpansionDue ==
    /\ SumWords(script.dialogue) < min_words
    /\ CallsOf("expand") < max_expansion_attempts

\* C25: an expansion call is issued exactly when the word_count of the
\* current script is below min_words and fewer than max_expansion_attempts
\* expansion calls have been made: a script of min_words or more, initial or
\* expanded, is returned without a further call, and an initial response that
\* failed to parse (empty dialogue, word_count 0) is expanded.
C25_ExpansionTrigger ==
    (pc = "expand" /\ raised = "none") =>
        /\ ENABLED expand_script(DialogueResponses) <=> ExpansionDue
        /\ ENABLED generate_dialogue_return <=> ~ ExpansionDue
        /\ (response.kind = "invalid_json" /\ CallsOf("expand") = 0) =>
              /\ script.dialogue = <<>>
              /\ ENABLED expand_script(DialogueResponses)

\* the first expansion brought the script to exactly min_words: the stage
\* returned it without a second call
C25_Witness ==
    /\ pc = "claims"
    /\ CallsOf("expand") = 1
    /\ SumWords(script.dialogue) = min_words


\* C30: in every VerificationReport, total_claims = supported_claims +
\* partially_supported_claims + unsupported_claims = the length of
\* claim_verifications, and unsupported_claims = the length of
\* hallucination_flags.
C30_ReportCounts ==
    Reported =>
        /\ report.total_claims =
              report.supported_claims + report.partially_supported_claims
                 + report.unsupported_claims
        /\ report.total_claims = Len(report.claim_verifications)
        /\ report.unsupported_claims = Len(report.hallucination_flags)

\* a report on two batches of claims with supported, partially supported and
\* unfound claims among them
C30_Witness ==
    /\ Reported
    /\ report.total_claims = BATCH_SIZE + 1
    /\ report.supported_claims > 0
    /\ report.partially_supported_claims > 0
    /\ report.unsupported_claims > BATCH_SIZE - 2


\* C26: in a run without transport failure, with S configured sections, e
\* expansion attempts (0 <= e <= max_expansion_attempts) and n extracted
\* claims, the port is called exactly S times for extraction (also for a
\* section whose pages are all out of range), once for the plan, once for the
\* dialogue, e times for expansion, once for claim extraction,
\* ceil(n / BATCH_SIZE) times for verification and once for coverage; no call
\* is repeated after a malformed response.
C26_PortCalls ==
    /\ CallsOf("extract") <= Len(config.sections)
    /\ CallsOf("extract") >= Len(sections)
    /\ CallsOf("plan") <= 1
    /\ CallsOf("dialogue") <= 1
    /\ CallsOf("expand") <= max_expansion_attempts
    /\ CallsOf("claims") <= 1
    /\ CallsOf("verify") <= CeilBatches(Len(claims))
    /\ CallsOf("coverage") <= 1
    /\ Reported =>
          /\ CallsOf("extract") = Len(config.sections)
          /\ CallsOf("plan") = 1
          /\ CallsOf("dialogue") = 1
          /\ CallsOf("expand") = attempt
          /\ CallsOf("claims") = 1
          /\ CallsOf("verify") = CeilBatches(Len(claims))
          /\ CallsOf("coverage") = 1
          /\ Len(calls) = Len(config.sections) + 1 + 1 + attempt + 1
                             + CeilBatches(Len(claims)) + 1

\* a full run on the configuration whose second section has no page in
\* range: 2 extraction calls, 2 expansions, 2 batches, 10 calls in all
C26_Witness ==
    /\ Reported
    /\ config = OutOfRangeConfig
    /\ sections[2].raw_text = <<>>
    /\ CallsOf("extract") = 2
    /\ attempt = max_expansion_attempts
    /\ Len(claims) = BATCH_SIZE + 1
    /\ Len(calls) = Len(config.sections) + 4 + max_expansion_attempts + 2

\* the positions of the configured pages of section j that lie in 1..N
PagesKept(j) ==
    {i \in 1..Len(sections[j].pages) :
        1 <= sections[j].pages[i] /\ sections[j].pages[i] <= config.total_pages}

\* C27: the raw text of a section holds a page-marked block for exactly the
\* configured pages p with 1 <= p <= N, in the configured order (not sorted,
\* duplicates kept); a configured page outside 1..N (0 and N + 1 included)
\* is skipped without raising, and the extraction of the section and of the
\* remaining sections goes on.
C27_PagesInRangeKept ==
    /\ \A j \in 1..Len(sections) :
          /\ sections[j].pages = config.sections[j].pages
          /\ Len(sections[j].raw_text) = Cardinality(PagesKept(j))
          /\ \A i \in PagesKept(j) :
                sections[j].raw_text[Cardinality({m \in PagesKept(j) : m <= i})]
                   = sections[j].pages[i]
    /\ raised # "none" => raised = KeyPointsError(response)
    /\ (pc = "extract" /\ raised = "none") =>
          \/ ENABLED extract_section(PipelineKeyPointResponses)
          \/ ENABLED extract_document_return

\* the first section was configured with pages N + 1 and 0: both were
\* skipped, and the second section was extracted after it
C27_Witness ==
    /\ pc = "plan"
    /\ Len(sections) = 2
    /\ sections[1].pages = <<TotalPages + 1, 0>>
    /\ sections[1].raw_text = <<>>
    /\ sections[2].raw_text # <<>>
    /\ sections[2].raw_text = sections[2].pages


\* C24: in the markdown written for a script, the dialogue lines follow the six
\* header lines two by two; a line whose emotion_cue is null reads "**Speaker:**",
\* one space, the text, and a line with a non-empty cue reads "**Speaker:**", one
\* space, the cue, one space, the text.
C24_MarkdownLines ==
    pc = "done" =>
        /\ Len(script_md) = 6 + 2 * Len(script.dialogue) + 5
        /\ \A k \in 1..Len(script.dialogue) :
              LET line == script.dialogue[k]
                  md   == script_md[6 + 2 * k - 1]
              IN /\ line.emotion_cue = None =>
                       md = <<"**", line.speaker, ":**", " ", line.text>>
                 /\ (line.emotion_cue # None /\ line.emotion_cue # "") =>
                       md = <<"**", line.speaker, ":**", " ", line.emotion_cue, " ", line.text>>
                 /\ script_md[6 + 2 * k] = <<>>

C24_Witness ==
    /\ pc = "done"
    /\ Len(script.dialogue) = 2
    /\ script.dialogue[1].emotion_cue = "[laughs]"
    /\ script.dialogue[2].emotion_cue = None
    /\ script_md[7] = <<"**", "Alex", ":**", " ", "[laughs]", " ", script.dialogue[1].text>>
    /\ script_md[9] = <<"**", "Jordan", ":**", " ", script.dialogue[2].text>>


\* number of prompt lines written for the sections before section j
RECURSIVE LinesBefore(_, _)
LinesBefore(secs, j) ==
    IF j = 1 THEN 0
    ELSE LinesBefore(secs, j - 1) + 1 + 2 * Len(secs[j - 1].key_points)

\* C29: in the key points formatted for the dialogue prompt, the source line of
\* a key point carries the first 200 characters of its quote followed by the
\* ellipsis marker when the quote is longer than 200 characters, and the whole
\* quote with no ellipsis marker when it has 200 characters or fewer.
C29_QuoteTruncation ==
    calls # <<>> =>
        \A j \in 1..Len(sections) : \A i \in 1..Len(sections[j].key_points) :
            LET q    == sections[j].key_points[i].source_quote
                line == key_points_with_sources[LinesBefore(sections, j) + 1 + 2 * i]
            IN  /\ Len(line) = 5
                /\ line[1] = "  Source (p."
                /\ Len(q) > 200 =>
                      /\ Len(line[4]) = 200
                      /\ \A k \in 1..200 : line[4][k] = q[k]
                      /\ line[5] = "...\""
                /\ Len(q) <= 200 =>
                      /\ line[4] = q
                      /\ line[5] = "\""

C29_Witness ==
    /\ calls # <<>>
    /\ Len(sections[1].key_points[1].source_quote) = 200
    /\ Len(sections[1].key_points[2].source_quote) = 201
    /\ key_points_with_sources[3][4] = sections[1].key_points[1].source_quote
    /\ key_points_with_sources[3][5] = "\""
    /\ Len(key_points_with_sources[5][4]) = 200
    /\ key_points_with_sources[5][5] = "...\""


\* 0-based position of the leftmost occurrence of sep in text at or after
\* position i, or -1
NextAt(text, sep, i) ==
    LET hits == {k \in i..(Len(text) - Len(sep)) : SubSeq(text, k + 1, k + Len(sep)) = sep}
    IN  IF hits = {} THEN -1
        ELSE CHOOSE k \in hits : \A h \in hits : k <= h

\* text[a:b], or text[a:] when b = -1
Between(text, a, b) ==
    IF b = -1 THEN SubSeq(text, a + 1, Len(text)) ELSE SubSeq(text, a + 1, b)

\* the content the structured-response parser is to return for a text, before
\* trimming
FencedContent(text) ==
    IF NextAt(text, JsonFence, 0) # -1
    THEN LET a == NextAt(text, JsonFence, 0) + Len(JsonFence)
         IN  Between(text, a, NextAt(text, Fence, a))
    ELSE IF NextAt(text, Fence, 0) # -1
    THEN LET a == NextAt(text, Fence, 0) + Len(Fence)
         IN  Between(text, a, NextAt(text, Fence, a))
    ELSE text

\* C28: the structured-response parser never raises; its copies in the
\* extractor, the generator and the verifier yield the same payload; and the
\* payload is, trimmed, the content between the first ```json fence and the
\* next ``` when the text has a ```json fence, otherwise the content between
\* the first two ``` markers when it has a ``` fence, otherwise the whole text.
C28_ParserPayload ==
    pc = "json_done" =>
        /\ json_str.raised = "none"
        /\ json_str.generator = json_str.verifier
        /\ json_str.generator = json_str.extractor
        /\ json_str.generator = Strip(FencedContent(response_text))


=============================================================================
